---- MODULE Spec2Model ----
(***************************************************************************)
(* Payment processing service: the payment lifecycle (idempotent           *)
(* initiation, webhook / redirect ingestion, timeout sweep) over the       *)
(* payments table.  Every request is a task of its own; a task's steps are *)
(* cut at its suspension points (store reads, outbound calls, commits).    *)
(* The store is PostgreSQL under its default READ COMMITTED isolation: a   *)
(* session's objects are the snapshot it loaded, and a commit flushes an   *)
(* UPDATE of the changed columns keyed by the primary key only.            *)
(***************************************************************************)
EXTENDS Integers, Sequences, FiniteSets, TLC

\* ------------------------------------------------------------------ bounds
NInit == 2          \* initiate requests in flight or finished
NIngest == 2        \* webhook / redirect deliveries in flight or finished
NPay == 1           \* payments initiated in a lifecycle run
NAuth == 2          \* authentications in flight or finished
NQuery == 1         \* status queries in flight or finished
MaxTime == 8        \* the clock stops advancing here (days)

\* ------------------------------------------------------- program constants
FIXED_AMOUNT == 500
PAYMENT_TIMEOUT_DAYS == 7
MAX_ATTEMPTS == 3

\* async_retry(max_attempts=3, ...): after n failed attempts of a retryable
\* error the wrapper gives up and the last error propagates.
RetryExhausted(n) == n >= MAX_ATTEMPTS

PENDING == "PENDING"
SUCCESS == "SUCCESS"
FAILED == "FAILED"
PaymentStatus == {PENDING, SUCCESS, FAILED}

MASKED_REF == << "********" >>

\* A reference that is the same for every initiation.
TxRef_Reused(n) == << "tx-", 0 >>

\* f"tx-{uuid.uuid4()}": the n-th fresh reference.
TxRef(n) == << "tx-", n >>

\* Optional column values: NULL or one value.
Null == << >>
Some(x) == << x >>

InitTasks == 1..NInit
IngestTasks == 1..NIngest
AuthTasks == 1..NAuth
QueryTasks == 1..NQuery

RequestIds == {"R1", "R2"}

VARIABLES
    payments,         \* the committed rows of the payments table, in insert order
    now,              \* the wall clock / database clock, in days
    webhook_secret,   \* settings.CHAPA_WEBHOOK_SECRET ("" when not configured)
    ini,              \* per initiate task: position, locals, response
    ing,              \* per ingest task: position, session object, response
    swp,              \* the timeout job: position, scanned rows, notifications
    cache,            \* the identity cache (redis): user_cache:{token} entries
    auth,             \* per authentication task: position, locals, result
    qry               \* per status query task: position, response

vars == << payments, now, webhook_secret, ini, ing, swp, cache, auth, qry >>

\* ------------------------------------------------------------------- store

\* Payment (models/payment.py): id is the row's position; created_at and
\* updated_at take the database clock at INSERT.
NewPayment(id, request_id, property_id, user_id, amount, tx_ref, t) ==
    [ id |-> id,
      request_id |-> request_id,
      property_id |-> property_id,
      user_id |-> user_id,
      amount |-> amount,
      status |-> PENDING,
      chapa_tx_ref |-> tx_ref,
      failure_reason |-> Null,
      created_at |-> t,
      updated_at |-> t,
      approved_at |-> Null ]

PaymentIds == 1..Len(payments)

\* select(Payment).where(Payment.request_id == rid): the matching row ids.
ByRequestId(rid) == { i \in PaymentIds : payments[i].request_id = rid }

\* select(Payment).where(Payment.chapa_tx_ref == ref): the matching row ids.
ByTxRef(ref) == { i \in PaymentIds : payments[i].chapa_tx_ref = ref }

\* request_id declared without unique=True.
UniqueViolation_Off(rid) == FALSE

\* UNIQUE(request_id): an INSERT of rid is refused while a row holds it.
UniqueViolation(rid) == \E i \in PaymentIds : payments[i].request_id = rid

\* ---------------------------------------------------------------- Initiate

\* The identity get_authenticated_entity hands to the handler: the synthetic
\* "Service" identity of the API-key path, or the bearer identity as resolved
\* (any role: the gate itself checks none).
ServiceEntity == [ role |-> "Service", user_id |-> "svc", phone_number |-> "+251900000000" ]

\* The phone number the user management service holds for a user that has one.
UserPhone == "+2519"

OwnerEntities ==
    { [ role |-> "Owner", user_id |-> "U1", phone_number |-> UserPhone ],
      [ role |-> "Owner", user_id |-> "U1", phone_number |-> "" ] }

\* A bearer identity whose role is not Owner.
OtherRoleEntities ==
    { [ role |-> "Tenant", user_id |-> "U2", phone_number |-> UserPhone ] }

\* PaymentCreate bodies with the identity that sends them.
InitiateRequestsOf(rids, entities, amounts) ==
    [ request_id : rids, property_id : {"P1"}, user_id : {"U1"},
      amount : amounts, entity : entities ]

\* What GET /users/{id} of the user management service can give
\* get_user_details_for_notification: a transport or status error (None), a
\* body NotificationPayload refuses (ValidationError), a user without or with
\* a phone number.
UserDetailOutcomes == { "none", "invalid", "nophone", "ok" }

\* initialize_payment, lines 31-33: the amount in the payload sent to the
\* gateway is the configured one, whatever amount the request object carried.
GatewayAmount(amount) == FIXED_AMOUNT

\* What one attempt of chapa_service.initialize_payment can give: a network
\* error or timeout, a 5xx response, a 4xx response, a body whose status is
\* not "success", a "success" body with or without checkout_url.
GatewayInitOutcomes == { "neterr", "http5xx", "http4xx", "rejected", "ok", "ok_nourl" }

\* initialize_payment, lines 41-43 and 50-52: the errors re-raised as they
\* are, which the retry wrapper retries.
InitRetryable == { "neterr", "http5xx" }

IniIdle ==
    [ pc |-> "idle", request_id |-> "", property_id |-> "", amount |-> 0,
      role |-> "", req_user_id |-> "", user_id |-> "", phone |-> Null,
      tx_ref |-> Null, gw_outs |-> << >>, gw |-> Null, dup |-> FALSE, resp |-> Null ]

\* An HTTP error response (HTTPException).
HttpError(code, detail) == [ code |-> code, detail |-> detail ]

\* PaymentResponse as the handler builds it.
PaymentResponse(code, p, ref, checkout) ==
    [ code |-> code, detail |-> "", id |-> p.id, property_id |-> p.property_id,
      user_id |-> p.user_id, amount |-> p.amount, status |-> p.status,
      chapa_tx_ref |-> ref, checkout_url |-> checkout ]

IniFinish(t, r) == ini' = [ ini EXCEPT ![t].pc = "done", ![t].resp = Some(r) ]

\* initiate_payment, lines 190-217 for a bearer identity: the contact data is
\* the identity's own, and a missing phone number ends the call with 400.
\* For the Service identity the call suspends on the user-detail fetch.
InitiateStart(t, req) ==
    /\ ini[t].pc = "idle"
    /\ LET e == req.entity
           loaded == [ ini[t] EXCEPT !.request_id = req.request_id,
                                     !.property_id = req.property_id,
                                     !.req_user_id = req.user_id,
                                     !.amount = req.amount,
                                     !.role = e.role ]
       IN  IF e.role = "Service"
           THEN ini' = [ ini EXCEPT ![t] = [ loaded EXCEPT !.pc = "userdetails" ] ]
           ELSE IF e.phone_number = ""
           THEN ini' = [ ini EXCEPT ![t] =
                    [ loaded EXCEPT !.pc = "done", !.user_id = e.user_id,
                        !.phone = Some(e.phone_number),
                        !.resp = Some(HttpError(400, "User phone number not provided")) ] ]
           ELSE ini' = [ ini EXCEPT ![t] =
                    [ loaded EXCEPT !.pc = "lookup", !.user_id = e.user_id,
                        !.phone = Some(e.phone_number) ] ]
    /\ UNCHANGED << payments, now, webhook_secret, ing, swp, cache, auth, qry >>

\* InitiateUserDetails without the phone number check.
InitiateUserDetails_NoPhoneCheck(t, out) ==
    /\ ini[t].pc = "userdetails"
    /\ CASE out = "none" ->
              IniFinish(t, HttpError(404, "User details not found for the provided user_id"))
         [] out = "invalid" ->
              IniFinish(t, HttpError(500, "Internal Server Error"))
         [] out = "nophone" ->
              ini' = [ ini EXCEPT ![t].pc = "lookup", ![t].user_id = ini[t].req_user_id,
                         ![t].phone = Some("") ]
         [] OTHER ->
              ini' = [ ini EXCEPT ![t].pc = "lookup", ![t].user_id = ini[t].req_user_id,
                         ![t].phone = Some(UserPhone) ]
    /\ UNCHANGED << payments, now, webhook_secret, ing, swp, cache, auth, qry >>

\* initiate_payment, lines 195-217 for the Service identity: the fetched user
\* details decide 404, 400 (no phone) or the way on; a body the payload
\* schema refuses is an unhandled error (500).
InitiateUserDetails(t, out) ==
    /\ ini[t].pc = "userdetails"
    /\ CASE out = "none" ->
              IniFinish(t, HttpError(404, "User details not found for the provided user_id"))
         [] out = "invalid" ->
              IniFinish(t, HttpError(500, "Internal Server Error"))
         [] out = "nophone" ->
              ini' = [ ini EXCEPT ![t].pc = "done", ![t].user_id = ini[t].req_user_id,
                         ![t].phone = Some(""),
                         ![t].resp = Some(HttpError(400, "User phone number not provided")) ]
         [] OTHER ->
              ini' = [ ini EXCEPT ![t].pc = "lookup", ![t].user_id = ini[t].req_user_id,
                         ![t].phone = Some(UserPhone) ]
    /\ UNCHANGED << payments, now, webhook_secret, ing, swp, cache, auth, qry >>

\* initiate_payment, lines 219-242: the idempotency lookup.  A stored row is
\* answered at once with the reference masked; otherwise a fresh reference
\* (uuid4: one per task) is drawn and the call goes on to the gateway.
InitiateLookup(t) ==
    /\ ini[t].pc = "lookup"
    /\ LET found == ByRequestId(ini[t].request_id)
       IN  IF found # {}
           THEN LET p == payments[CHOOSE i \in found : TRUE]
                IN  ini' = [ ini EXCEPT ![t].pc = "done", ![t].dup = TRUE,
                               ![t].resp = Some(PaymentResponse(202, p, MASKED_REF, Null)) ]
           ELSE ini' = [ ini EXCEPT ![t].pc = "gateway", ![t].tx_ref = Some(TxRef(t)) ]
    /\ UNCHANGED << payments, now, webhook_secret, ing, swp, cache, auth, qry >>

\* InitiateGateway without the check of the response body's status.
InitiateGateway_IgnoreBodyStatus(t, out) ==
    /\ ini[t].pc = "gateway"
    /\ LET outs == Append(ini[t].gw_outs, out)
       IN  CASE out \in InitRetryable ->
                  IF RetryExhausted(Len(outs))
                  THEN ini' = [ ini EXCEPT ![t].pc = "done", ![t].gw_outs = outs,
                                  ![t].gw = Some(out),
                                  ![t].resp = Some(HttpError(500, "Internal server error")) ]
                  ELSE ini' = [ ini EXCEPT ![t].gw_outs = outs ]
             [] out = "http4xx" ->
                  ini' = [ ini EXCEPT ![t].pc = "done", ![t].gw_outs = outs,
                             ![t].gw = Some(out),
                             ![t].resp = Some(HttpError(400, "Chapa payment initialization failed")) ]
             [] OTHER ->
                  ini' = [ ini EXCEPT ![t].pc = "commit", ![t].gw_outs = outs,
                             ![t].gw = Some(out) ]
    /\ UNCHANGED << payments, now, webhook_secret, ing, swp, cache, auth, qry >>

\* InitiateGateway retrying a 4xx response like a 5xx.
InitiateGateway_Retry4xx(t, out) ==
    /\ ini[t].pc = "gateway"
    /\ LET outs == Append(ini[t].gw_outs, out)
       IN  CASE out \in InitRetryable \cup {"http4xx"} ->
                  IF RetryExhausted(Len(outs))
                  THEN ini' = [ ini EXCEPT ![t].pc = "done", ![t].gw_outs = outs,
                                  ![t].gw = Some(out),
                                  ![t].resp = Some(HttpError(500, "Internal server error")) ]
                  ELSE ini' = [ ini EXCEPT ![t].gw_outs = outs ]
             [] out = "rejected" ->
                  ini' = [ ini EXCEPT ![t].pc = "done", ![t].gw_outs = outs,
                             ![t].gw = Some(out),
                             ![t].resp = Some(HttpError(400, "Payment initialization failed")) ]
             [] OTHER ->
                  ini' = [ ini EXCEPT ![t].pc = "commit", ![t].gw_outs = outs,
                             ![t].gw = Some(out) ]
    /\ UNCHANGED << payments, now, webhook_secret, ing, swp, cache, auth, qry >>

\* initiate_payment, lines 268-285 and 306-310, with initialize_payment
\* (chapa.py lines 25-52): one attempt of the gateway initialize call has
\* ended with out.  A network error or a 5xx is retried until the wrapper
\* gives up, and the error it lets through is answered 500 by the handler's
\* catch-all; a 4xx is raised as HTTPException at once; a body whose status
\* is not "success" is answered 400; a "success" body goes on to the commit.
InitiateGateway(t, out) ==
    /\ ini[t].pc = "gateway"
    /\ LET outs == Append(ini[t].gw_outs, out)
       IN  CASE out \in InitRetryable ->
                  IF RetryExhausted(Len(outs))
                  THEN ini' = [ ini EXCEPT ![t].pc = "done", ![t].gw_outs = outs,
                                  ![t].gw = Some(out),
                                  ![t].resp = Some(HttpError(500, "Internal server error")) ]
                  ELSE ini' = [ ini EXCEPT ![t].gw_outs = outs ]
             [] out = "http4xx" ->
                  ini' = [ ini EXCEPT ![t].pc = "done", ![t].gw_outs = outs,
                             ![t].gw = Some(out),
                             ![t].resp = Some(HttpError(400, "Chapa payment initialization failed")) ]
             [] out = "rejected" ->
                  ini' = [ ini EXCEPT ![t].pc = "done", ![t].gw_outs = outs,
                             ![t].gw = Some(out),
                             ![t].resp = Some(HttpError(400, "Payment initialization failed")) ]
             [] OTHER ->
                  ini' = [ ini EXCEPT ![t].pc = "commit", ![t].gw_outs = outs,
                             ![t].gw = Some(out) ]
    /\ UNCHANGED << payments, now, webhook_secret, ing, swp, cache, auth, qry >>

\* InitiateCommit that answers without having committed the row.
InitiateCommit_NoPersist(t, dbok) ==
    /\ ini[t].pc = "commit"
    /\ LET p == NewPayment(Len(payments) + 1, ini[t].request_id, ini[t].property_id,
                           ini[t].user_id, ini[t].amount, ini[t].tx_ref[1], now)
       IN  IniFinish(t, PaymentResponse(202, p, p.chapa_tx_ref, Some("checkout")))
    /\ UNCHANGED << payments, now, webhook_secret, ing, swp, cache, auth, qry >>

\* InitiateCommit that starts the gateway initialization again when the store
\* refuses the row.
InitiateCommit_RepeatOnStoreFailure(t, dbok) ==
    /\ ini[t].pc = "commit"
    /\ LET id == Len(payments) + 1
           p == NewPayment(id, ini[t].request_id, ini[t].property_id, ini[t].user_id,
                           ini[t].amount, ini[t].tx_ref[1], now)
       IN  IF UniqueViolation(ini[t].request_id) \/ ~dbok
           THEN /\ ini' = [ ini EXCEPT ![t].pc = "gateway", ![t].gw = Null ]
                /\ UNCHANGED payments
           ELSE /\ payments' = Append(payments, p)
                /\ IF ini[t].gw = Some("ok_nourl")
                   THEN IniFinish(t, HttpError(500, "Internal server error: TypeError"))
                   ELSE IniFinish(t, PaymentResponse(202, p, p.chapa_tx_ref, Some("checkout")))
    /\ UNCHANGED << now, webhook_secret, ing, swp, cache, auth, qry >>

\* initiate_payment, lines 277-310: INSERT and commit, refresh, response.
\* The unique constraint on request_id refuses a second row (IntegrityError),
\* and so may the store for its own reasons (dbok = FALSE); either is caught
\* by the handler's catch-all and answered 500.  A "success" body without
\* checkout_url fails at checkout_url[:30], after the row is committed.
InitiateCommit(t, dbok) ==
    /\ ini[t].pc = "commit"
    /\ LET id == Len(payments) + 1
           p == NewPayment(id, ini[t].request_id, ini[t].property_id, ini[t].user_id,
                           ini[t].amount, ini[t].tx_ref[1], now)
       IN  IF UniqueViolation(ini[t].request_id) \/ ~dbok
           THEN /\ IniFinish(t, HttpError(500,
                        IF UniqueViolation(ini[t].request_id)
                        THEN "Internal server error: IntegrityError"
                        ELSE "Internal server error: OperationalError"))
                /\ UNCHANGED payments
           ELSE /\ payments' = Append(payments, p)
                /\ IF ini[t].gw = Some("ok_nourl")
                   THEN IniFinish(t, HttpError(500, "Internal server error: TypeError"))
                   ELSE IniFinish(t, PaymentResponse(202, p, p.chapa_tx_ref, Some("checkout")))
    /\ UNCHANGED << now, webhook_secret, ing, swp, cache, auth, qry >>

\* ------------------------------------------------------------------ Ingest

\* hmac.new(key, body, sha256).hexdigest(): a value fixed by key and body.
Hmac(key, body) == << key, body >>

\* The secret the gateway signs its callbacks with.
GatewaySecret == "whsec"

\* ChapaService.verify_webhook_signature.
verify_webhook_signature(payload_body, chapa_signature) ==
    IF webhook_secret = ""
    THEN TRUE
    ELSE Hmac(webhook_secret, payload_body) = chapa_signature

\* Callback payloads: a body that is no JSON, or tx_ref / status fields, each
\* of which may be missing.
Garbage == [ json |-> FALSE, tx_ref |-> Null, status |-> Null ]
PayloadsOf(refs, statuses) ==
    [ json : {TRUE}, tx_ref : { Some(r) : r \in refs } \cup {Null},
      status : { Some(x) : x \in statuses } \cup {Null} ]

\* A delivery: POST with a body and maybe an X-Chapa-Signature header (signed
\* by the gateway, or by someone without the secret), or GET with query
\* parameters.
DeliveriesOf(payloads) ==
    UNION { { [ method |-> "POST", body |-> b, signature |-> x ] :
                x \in {Null} \cup { Some(Hmac(k, b)) : k \in {GatewaySecret, "forged"} } } :
            b \in payloads \cup {Garbage} }
    \cup { [ method |-> "GET", body |-> b, signature |-> Null ] : b \in payloads }

\* What one attempt of chapa_service.verify_payment can give: an error that
\* no retry follows (a 2xx body that is not a ChapaVerifyResponse, line 81),
\* or a body with a top-level status and data.status.
VerifyError == [ error |-> TRUE, status |-> "", data_status |-> "" ]
VerifyOutcomes ==
    {VerifyError} \cup
    [ error : {FALSE}, status : {"success", "failed"},
      data_status : {"success", "failed"} ]

\* verify_payment, lines 78-79 and 82-87: an attempt ended by a network error
\* or timeout, a 5xx response, a 4xx response.
VerifyAttemptErrors ==
    [ error : {TRUE}, status : {"neterr", "http5xx", "http4xx"}, data_status : {""} ]

\* verify_payment, lines 72 and 82-87: RequestError and HTTPStatusError are
\* both re-raised as they are, whatever the response's status code, and both
\* are in the decorator's list of errors to retry.
VerifyRetryable(v) ==
    v.error /\ v.status \in {"neterr", "http5xx", "http4xx"}

IngIdle ==
    [ pc |-> "idle", method |-> "", signed |-> "", tx_ref |-> Null,
      reported |-> Null, obj |-> Null, dirty |-> {}, seen |-> Null,
      verify_outs |-> << >>, verify |-> Null, confirm |-> Null, resp |-> Null ]

\* How the delivery was signed: no header, the gateway's signature, another.
SignedAs(d) ==
    IF d.signature = Null THEN "none"
    ELSE IF d.signature = Some(Hmac(GatewaySecret, d.body)) THEN "gateway"
    ELSE "forged"

\* chapa_webhook, lines 365-406: what the boundary answers before any store
\* access: Null when the delivery goes on to the lookup.
WebhookReject(d) ==
    IF d.method = "POST" /\ d.signature = Null
    THEN Some(HttpError(401, "X-Chapa-Signature header missing"))
    ELSE IF d.method = "POST" /\ ~verify_webhook_signature(d.body, d.signature[1])
    THEN Some(HttpError(401, "Invalid webhook signature"))
    ELSE IF d.method = "POST" /\ ~d.body.json
    THEN Some(HttpError(400, "Invalid JSON payload"))
    ELSE IF d.body.tx_ref = Null \/ d.body.status = Null
    THEN Some(HttpError(400, "Invalid webhook/redirect payload"))
    ELSE Null

\* chapa_webhook, lines 357-408: receive a delivery.
WebhookReceive(t, d) ==
    /\ ing[t].pc = "idle"
    /\ LET rej == WebhookReject(d)
           got == [ ing[t] EXCEPT !.method = d.method, !.signed = SignedAs(d) ]
       IN  IF rej # Null
           THEN ing' = [ ing EXCEPT ![t] = [ got EXCEPT !.pc = "done", !.resp = rej ] ]
           ELSE ing' = [ ing EXCEPT ![t] =
                    [ got EXCEPT !.pc = "lookup", !.tx_ref = d.body.tx_ref,
                                 !.reported = d.body.status ] ]
    /\ UNCHANGED << payments, now, webhook_secret, ini, swp, cache, auth, qry >>

\* Answers of the handler that end a delivery with 200.
Ok200(detail) == [ code |-> 200, detail |-> detail ]

\* AfterLookup answering an unknown reference with 404.
AfterLookup_NotFound404(w, found) ==
    LET gone == [ w EXCEPT !.method = "", !.signed = "" ]
    IN  IF found = {}
        THEN [ gone EXCEPT !.pc = "done", !.tx_ref = Null,
                           !.resp = Some(HttpError(404, "Payment not found")) ]
        ELSE LET p == payments[CHOOSE i \in found : TRUE]
             IN  IF p.status # PENDING
                 THEN [ gone EXCEPT !.pc = "done", !.seen = Some(p.status),
                          !.resp = Some(Ok200("Payment already processed, no action taken")) ]
                 ELSE [ gone EXCEPT !.pc = "verify", !.seen = Some(p.status), !.obj = Some(p) ]

\* AfterLookup without the already-processed guard.
AfterLookup_NoReplayGuard(w, found) ==
    LET gone == [ w EXCEPT !.method = "", !.signed = "" ]
    IN  IF found = {}
        THEN [ gone EXCEPT !.pc = "done", !.tx_ref = Null,
                           !.resp = Some(Ok200("Payment not found, no action taken")) ]
        ELSE LET p == payments[CHOOSE i \in found : TRUE]
             IN  [ gone EXCEPT !.pc = "verify", !.seen = Some(p.status), !.obj = Some(p) ]

\* chapa_webhook, lines 417-434: what the handler does with the rows the
\* lookup found: an unknown reference and a payment that is not PENDING are
\* answered 200 at once; a PENDING payment is kept as the session's object.
\* (The method and the signature header are not read again from here on.)
AfterLookup(w, found) ==
    LET gone == [ w EXCEPT !.method = "", !.signed = "" ]
    IN  IF found = {}
        THEN [ gone EXCEPT !.pc = "done", !.tx_ref = Null,
                           !.resp = Some(Ok200("Payment not found, no action taken")) ]
        ELSE LET p == payments[CHOOSE i \in found : TRUE]
             IN  IF p.status # PENDING
                 THEN [ gone EXCEPT !.pc = "done", !.seen = Some(p.status),
                          !.resp = Some(Ok200("Payment already processed, no action taken")) ]
                 ELSE [ gone EXCEPT !.pc = "verify", !.seen = Some(p.status), !.obj = Some(p) ]

\* chapa_webhook, lines 410-434: load the payment by its reference.
WebhookLookup(t) ==
    /\ ing[t].pc = "lookup"
    /\ ing' = [ ing EXCEPT ![t] = AfterLookup(@, ByTxRef(ing[t].tx_ref[1])) ]
    /\ UNCHANGED << payments, now, webhook_secret, ini, swp, cache, auth, qry >>

\* NewStatus reading the top-level status only.
NewStatus_TopLevelOnly(v) ==
    IF ~v.error /\ v.status = "success" THEN SUCCESS ELSE FAILED

\* chapa_webhook, lines 441-452: the status the verify outcome decides.
NewStatus(v) ==
    IF ~v.error /\ v.status = "success" /\ v.data_status = "success"
    THEN SUCCESS
    ELSE FAILED

\* chapa_webhook, lines 446 and 451: the failure_reason written with FAILED.
FailureReason(v) ==
    IF v.error THEN "Chapa verification API error"
    ELSE "Chapa verification failed"

\* The session's object after the handler's assignments for new_status.
Assigned(o, new_status, v) ==
    IF new_status = SUCCESS
    THEN [ o EXCEPT !.status = new_status, !.updated_at = now, !.approved_at = Some(now) ]
    ELSE [ o EXCEPT !.status = new_status, !.updated_at = now,
                    !.failure_reason = Some(FailureReason(v)) ]

\* AfterVerify taking the callback's own status for the gateway's.
AfterVerify_TrustReported(w, v) ==
    LET new_status == IF w.reported = Some("success") THEN NewStatus(v) ELSE FAILED
        o == w.obj[1]
        o1 == Assigned(o, new_status, v)
    IN  [ w EXCEPT !.pc = "commit", !.verify = Some(v), !.obj = Some(o1),
                   !.dirty = { c \in DOMAIN o : o1[c] # o[c] } \cup {"updated_at"} ]

\* chapa_webhook, lines 438-460: the verify call has returned or raised: the
\* session's object takes the new status, updated_at, and failure_reason or
\* approved_at; the changed columns are what the commit will flush.
AfterVerify(w, v) ==
    LET new_status == NewStatus(v)
        o == w.obj[1]
        o1 == Assigned(o, new_status, v)
    IN  [ w EXCEPT !.pc = "commit", !.verify = Some(v), !.obj = Some(o1),
                   !.dirty = { c \in DOMAIN o : o1[c] # o[c] } \cup {"updated_at"} ]

\* chapa_webhook, lines 436-460, with verify_payment (chapa.py lines 72-87):
\* one attempt of the verify call has ended with v.  An error of the retry
\* list is retried until the wrapper gives up; the body, or the error that
\* comes out of the call, decides the new status.
WebhookVerify(t, v) ==
    /\ ing[t].pc = "verify"
    /\ LET outs == Append(ing[t].verify_outs, v)
       IN  IF VerifyRetryable(v) /\ ~RetryExhausted(Len(outs))
           THEN ing' = [ ing EXCEPT ![t].verify_outs = outs ]
           ELSE ing' = [ ing EXCEPT ![t] = AfterVerify([ @ EXCEPT !.verify_outs = outs ], v) ]
    /\ UNCHANGED << payments, now, webhook_secret, ini, swp, cache, auth, qry >>

\* The UPDATE a session flushes for one object: the changed columns, WHERE id.
Flush(row, obj, cols) ==
    [ c \in DOMAIN row |-> IF c \in cols THEN obj[c] ELSE row[c] ]

\* WebhookCommit notifying the listing service of every transition.
WebhookCommit_NotifyAlways(t, dbok) ==
    /\ ing[t].pc = "commit"
    /\ LET o == ing[t].obj[1]
       IN  IF ~dbok
           THEN /\ ing' = [ ing EXCEPT ![t].pc = "done",
                        ![t].resp = Some(HttpError(500, "Internal Server Error")) ]
                /\ UNCHANGED payments
           ELSE /\ payments' = [ payments EXCEPT ![o.id] = Flush(@, o, ing[t].dirty) ]
                /\ ing' = [ ing EXCEPT ![t].pc = "confirm" ]
    /\ UNCHANGED << now, webhook_secret, ini, swp, cache, auth, qry >>

\* chapa_webhook, lines 460-473: commit (and refresh); only SUCCESS goes on to
\* the listing service.  A commit the store fails (dbok = FALSE) raises out of
\* the handler (500) and leaves the row as it was.
WebhookCommit(t, dbok) ==
    /\ ing[t].pc = "commit"
    /\ LET o == ing[t].obj[1]
       IN  IF ~dbok
           THEN /\ ing' = [ ing EXCEPT ![t].pc = "done",
                        ![t].resp = Some(HttpError(500, "Internal Server Error")) ]
                /\ UNCHANGED payments
           ELSE /\ payments' = [ payments EXCEPT ![o.id] = Flush(@, o, ing[t].dirty) ]
                /\ IF o.status = SUCCESS
                   THEN ing' = [ ing EXCEPT ![t].pc = "confirm" ]
                   ELSE ing' = [ ing EXCEPT ![t].pc = "done",
                            ![t].resp = Some(Ok200("Webhook processed successfully")) ]
    /\ UNCHANGED << now, webhook_secret, ini, swp, cache, auth, qry >>

\* chapa_webhook, lines 473-496: the confirm call to the listing service; its
\* failure is logged and the callback is answered 200 all the same.
WebhookConfirm(t, ok) ==
    /\ ing[t].pc = "confirm"
    /\ ing' = [ ing EXCEPT ![t].pc = "done", ![t].confirm = Some(ok),
                  ![t].resp = Some(Ok200("Webhook processed successfully")) ]
    /\ UNCHANGED << payments, now, webhook_secret, ini, swp, cache, auth, qry >>

\* ----------------------------------------------------------- SweepTimeouts

\* batch: the scanned payments the loop has yet to take; marked: the session's
\* objects set FAILED, with their updated_at; sent: the confirm calls made,
\* with whether each went through.
SwpIdle == [ pc |-> "idle", batch |-> {}, marked |-> << >>, cur |-> 0, sent |-> << >> ]

\* StalePending without the created_at filter.
StalePending_AnyAge == { i \in PaymentIds : payments[i].status = PENDING }

\* timeout_pending_payments, lines 49-56: the rows the scan selects.
StalePending ==
    { i \in PaymentIds : /\ payments[i].status = PENDING
                         /\ payments[i].created_at < now - PAYMENT_TIMEOUT_DAYS }

\* timeout_pending_payments, lines 58-61: the loop takes the next scanned
\* payment and marks the session's object FAILED, stamped with the clock.
SweepMark(s, i) ==
    [ s EXCEPT !.pc = "notify", !.cur = i, !.batch = @ \ {i},
               !.marked = [ j \in DOMAIN @ \cup {i} |-> IF j = i THEN now ELSE @[j] ] ]

\* timeout_pending_payments, lines 46-61: scan, and enter the loop.
SweepScan ==
    /\ swp.pc = "idle"
    /\ LET pending_payments == StalePending
           s == [ SwpIdle EXCEPT !.batch = pending_payments ]
       IN  IF pending_payments = {}
           THEN swp' = [ s EXCEPT !.pc = "commit" ]
           ELSE \E i \in pending_payments : swp' = SweepMark(s, i)
    /\ UNCHANGED << payments, now, webhook_secret, ini, ing, cache, auth, qry >>

\* SweepNotify without the try / except around the confirm call: a failed
\* notification raises out of the job before its commit.
SweepNotify_AbortOnFailure(ok) ==
    /\ swp.pc = "notify"
    /\ LET s == [ swp EXCEPT !.cur = 0,
                    !.sent = [ j \in DOMAIN @ \cup {swp.cur} |->
                                 IF j = swp.cur THEN ok ELSE @[j] ] ]
       IN  IF ~ok
           THEN swp' = [ s EXCEPT !.pc = "idle" ]
           ELSE IF s.batch = {}
           THEN swp' = [ s EXCEPT !.pc = "commit" ]
           ELSE \E i \in s.batch : swp' = SweepMark(s, i)
    /\ UNCHANGED << payments, now, webhook_secret, ini, ing, cache, auth, qry >>

\* timeout_pending_payments, lines 73-81 and 58-61: the confirm call for the
\* current payment returns or fails (logged); the loop goes on.
SweepNotify(ok) ==
    /\ swp.pc = "notify"
    /\ LET s == [ swp EXCEPT !.cur = 0,
                    !.sent = [ j \in DOMAIN @ \cup {swp.cur} |->
                                 IF j = swp.cur THEN ok ELSE @[j] ] ]
       IN  IF s.batch = {}
           THEN swp' = [ s EXCEPT !.pc = "commit" ]
           ELSE \E i \in s.batch : swp' = SweepMark(s, i)
    /\ UNCHANGED << payments, now, webhook_secret, ini, ing, cache, auth, qry >>

\* timeout_pending_payments, line 83: one commit flushes every marked object:
\* UPDATE payments SET status, updated_at WHERE id.  A commit the store fails
\* (dbok = FALSE) raises out of the job and writes nothing.
SweepCommit(dbok) ==
    /\ swp.pc = "commit"
    /\ IF dbok
       THEN payments' = [ i \in PaymentIds |->
                IF i \in DOMAIN swp.marked
                THEN [ payments[i] EXCEPT !.status = FAILED, !.updated_at = swp.marked[i] ]
                ELSE payments[i] ]
       ELSE UNCHANGED payments
    /\ swp' = [ swp EXCEPT !.pc = "idle" ]
    /\ UNCHANGED << now, webhook_secret, ini, ing, cache, auth, qry >>

\* ------------------------------------------------------ identity and gate

\* Bearer credentials: one that decodes (signature, expiry, sub claim), one
\* whose signature or expiry fails, one that decodes but carries no sub claim.
Tokens == { "tokOwner", "tokExpired", "tokNoSub" }

\* jwt.decode succeeds and the payload has a sub claim (lines 57-76).
DecodeOk(tok) == tok = "tokOwner"

\* The identity the user management service holds for a credential.
UserOf(tok) == [ role |-> "Owner", user_id |-> "U1", phone_number |-> UserPhone ]

\* settings.PAYMENT_SERVICE_API_KEY, and the X-API-Key headers a request may
\* carry: none, the key, another string.
PAYMENT_SERVICE_API_KEY == "svc-key"
ApiKeys == { Null, Some(PAYMENT_SERVICE_API_KEY), Some("wrong-key") }

\* What one GET /auth/verify attempt can give: a transport error or timeout,
\* a 401, a 403, a body that is the user's identity, a JSON body that is not.
RemoteVerifyErrors == { "unreachable", "401", "403" }
RemoteVerifyOutcomes == RemoteVerifyErrors \cup { "ok", "malformed" }

\* The JSON body of a verify response: the identity's fields, or none of them.
VerifyBody(tok, out) == IF out = "ok" THEN << UserOf(tok) >> ELSE << >>

\* UserAuthResponse(**user_data) accepts the body.
Parses(body) == body # << >>

\* What a cache write can do: SET with the TTL, fail (redis error), or be
\* skipped because the remaining lifetime is not positive.
CacheWriteOutcomes == { "ok", "fail", "skip" }

AuthIdle ==
    [ pc |-> "idle", mode |-> "", api_key |-> Null, token |-> Null,
      read_failed |-> FALSE, write_failed |-> FALSE, hit |-> FALSE,
      decoded |-> FALSE, outs |-> << >>, body |-> Null, wrote |-> FALSE,
      result |-> Null ]

\* What an authentication ends with: an identity, or an HTTPException.
AuthOk(identity) == [ code |-> 200, detail |-> "", identity |-> Some(identity) ]
AuthErr(code, detail) == [ code |-> code, detail |-> detail, identity |-> Null ]

\* get_authenticated_entity, lines 157-180: the body of the dual-mode gate,
\* run once both of its dependencies have returned.
GateDecide(api_key, owner_from_jwt) ==
    IF api_key # Null THEN AuthOk(ServiceEntity)
    ELSE IF owner_from_jwt # Null THEN AuthOk(owner_from_jwt[1])
    ELSE AuthErr(401, "Not authenticated: Provide a valid API Key or Owner JWT")

\* get_current_user has returned or raised r: a direct caller gets r; the gate
\* fails with r's error, or runs its body with the identity.
ResolveReturn(a, r) ==
    [ a EXCEPT !.pc = "done",
               !.result = IF a.mode = "gate" /\ r.code = 200
                          THEN Some(GateDecide(a.api_key, r.identity))
                          ELSE Some(r) ]

\* An authentication starts: the gate (mode "gate": get_api_key, then
\* get_optional_user, lines 22-34 and 143-147) or get_current_user alone
\* (mode "resolve", lines 36-48), up to the cache read.
AuthStart(t, mode, key, tok) ==
    /\ auth[t].pc = "idle"
    /\ mode = "resolve" => key = Null
    /\ LET a == [ AuthIdle EXCEPT !.mode = mode, !.api_key = key, !.token = tok ]
       IN  IF mode = "gate" /\ key # Null /\ key # Some(PAYMENT_SERVICE_API_KEY)
           THEN auth' = [ auth EXCEPT ![t] =
                    [ a EXCEPT !.pc = "done", !.result = Some(AuthErr(401, "Invalid API Key")) ] ]
           ELSE IF tok = Null
           THEN auth' = [ auth EXCEPT ![t] =
                    [ a EXCEPT !.pc = "done",
                        !.result = IF mode = "gate"
                                   THEN Some(GateDecide(key, Null))
                                   ELSE Some(AuthErr(401, "Bearer token required")) ] ]
           ELSE auth' = [ auth EXCEPT ![t] = [ a EXCEPT !.pc = "cache" ] ]
    /\ UNCHANGED << payments, now, webhook_secret, ini, ing, swp, cache, qry >>

\* AfterMiss sending the credential to the user management service undecoded.
AfterMiss_SkipDecode(a) == [ a EXCEPT !.pc = "remote" ]

\* get_current_user, lines 56-76: no identity came from the cache; the
\* credential is decoded, and one that fails ends the call with 401.
AfterMiss(a) ==
    LET d == [ a EXCEPT !.decoded = TRUE ]
    IN  IF DecodeOk(a.token[1])
        THEN [ d EXCEPT !.pc = "remote" ]
        ELSE ResolveReturn(d, AuthErr(401, "Could not validate credentials"))

\* AfterCacheRead letting a cache error reach the caller.
AfterCacheRead_RaiseOnError(a, ok, entry) ==
    IF ~ok
    THEN ResolveReturn([ a EXCEPT !.read_failed = TRUE ], AuthErr(500, "Internal Server Error"))
    ELSE IF entry # Null /\ Parses(entry[1])
    THEN ResolveReturn([ a EXCEPT !.hit = TRUE ], AuthOk(entry[1][1]))
    ELSE AfterMiss(a)

\* AfterCacheRead decoding the credential before it looks at the cache entry.
AfterCacheRead_DecodeFirst(a, ok, entry) ==
    IF ok /\ entry # Null /\ Parses(entry[1]) /\ DecodeOk(a.token[1])
    THEN ResolveReturn([ a EXCEPT !.hit = TRUE, !.decoded = TRUE ], AuthOk(entry[1][1]))
    ELSE AfterMiss([ a EXCEPT !.read_failed = ~ok ])

\* get_current_user, lines 46-54: the cache read has returned entry, or failed
\* (ok = FALSE): an entry that is an identity is returned at once; a failed
\* read, no entry, or an entry the schema refuses, goes on to the live path.
AfterCacheRead(a, ok, entry) ==
    IF ok /\ entry # Null /\ Parses(entry[1])
    THEN ResolveReturn([ a EXCEPT !.hit = TRUE ], AuthOk(entry[1][1]))
    ELSE AfterMiss([ a EXCEPT !.read_failed = ~ok ])

AuthCacheRead(t, ok) ==
    /\ auth[t].pc = "cache"
    /\ auth' = [ auth EXCEPT ![t] = AfterCacheRead(@, ok, cache[auth[t].token[1]]) ]
    /\ UNCHANGED << payments, now, webhook_secret, ini, ing, swp, cache, qry >>

\* verify_with_user_management, lines 90-111: the HTTPException an attempt
\* that failed raises.
RemoteError(out) ==
    CASE out = "unreachable" -> AuthErr(503, "User Management service is unavailable")
      [] out = "401" -> AuthErr(401, "Could not validate credentials")
      [] OTHER -> AuthErr(403, "Not authorized to perform this action")

\* AfterRemote reporting an unreachable service as bad credentials.
AfterRemote_UnreachableIs401(a, out) ==
    LET r == [ a EXCEPT !.outs = Append(@, out) ]
    IN  IF out \in RemoteVerifyErrors
        THEN IF RetryExhausted(Len(r.outs))
             THEN ResolveReturn(r, AuthErr(401, "Could not validate credentials"))
             ELSE r
        ELSE [ r EXCEPT !.pc = "cachewrite", !.body = Some(VerifyBody(a.token[1], out)) ]

\* get_current_user, lines 78-113: one attempt of the verify call has ended
\* with out.  Every error it raises is an HTTPException, which the retry
\* wrapper retries; the response body of a 200 goes on to the cache write.
AfterRemote(a, out) ==
    LET r == [ a EXCEPT !.outs = Append(@, out) ]
    IN  IF out \in RemoteVerifyErrors
        THEN IF RetryExhausted(Len(r.outs))
             THEN ResolveReturn(r, RemoteError(out))
             ELSE r
        ELSE [ r EXCEPT !.pc = "cachewrite", !.body = Some(VerifyBody(a.token[1], out)) ]

AuthRemote(t, out) ==
    /\ auth[t].pc = "remote"
    /\ auth' = [ auth EXCEPT ![t] = AfterRemote(@, out) ]
    /\ UNCHANGED << payments, now, webhook_secret, ini, ing, swp, cache, qry >>

\* get_current_user, lines 122-131: the verify response is stored in the
\* cache (unless the remaining lifetime is not positive, or redis fails: that
\* is logged), then read into UserAuthResponse, which a body that is not an
\* identity fails (500).
AuthCacheWrite(t, w) ==
    /\ auth[t].pc = "cachewrite"
    /\ LET a == auth[t]
           body == a.body[1]
           a1 == [ a EXCEPT !.wrote = (w = "ok"), !.write_failed = (w = "fail") ]
       IN  /\ cache' = IF w = "ok" THEN [ cache EXCEPT ![a.token[1]] = Some(body) ] ELSE cache
           /\ auth' = [ auth EXCEPT ![t] =
                  IF Parses(body)
                  THEN ResolveReturn(a1, AuthOk(body[1]))
                  ELSE ResolveReturn(a1, AuthErr(500, "Internal Server Error")) ]
    /\ UNCHANGED << payments, now, webhook_secret, ini, ing, swp, qry >>

\* The TTL of a cache entry runs out (line 125, ex=...).
CacheExpire(tok) ==
    /\ cache[tok] # Null
    /\ cache' = [ cache EXCEPT ![tok] = Null ]
    /\ UNCHANGED << payments, now, webhook_secret, ini, ing, swp, auth, qry >>

\* ------------------------------------------------------------ status query

QryIdle == [ pc |-> "idle", user |-> Null, payment_id |-> 0, resp |-> Null ]

\* The identities get_current_user can hand to the status query: the paying
\* user, another user, an administrator.
QueryUsers ==
    { [ role |-> "Owner", user_id |-> "U1", phone_number |-> UserPhone ],
      [ role |-> "Owner", user_id |-> "U2", phone_number |-> UserPhone ],
      [ role |-> "Admin", user_id |-> "U2", phone_number |-> UserPhone ] }

\* StatusView returning the stored reference.
StatusView_Unmasked(user, payment_id) ==
    IF payment_id \notin PaymentIds
    THEN HttpError(404, "Payment not found")
    ELSE LET payment == payments[payment_id]
         IN  IF payment.user_id # user.user_id /\ user.role # "Admin"
             THEN HttpError(403, "Not authorized to view this payment status")
             ELSE PaymentResponse(200, payment, payment.chapa_tx_ref, Null)

\* StatusView without the owner-of-record check.
StatusView_AnyUser(user, payment_id) ==
    IF payment_id \notin PaymentIds
    THEN HttpError(404, "Payment not found")
    ELSE PaymentResponse(200, payments[payment_id], MASKED_REF, Null)

\* get_payment_status, lines 324-345: what the query answers.
StatusView(user, payment_id) ==
    IF payment_id \notin PaymentIds
    THEN HttpError(404, "Payment not found")
    ELSE LET payment == payments[payment_id]
         IN  IF payment.user_id # user.user_id /\ user.role # "Admin"
             THEN HttpError(403, "Not authorized to view this payment status")
             ELSE PaymentResponse(200, payment, MASKED_REF, Null)

\* get_payment_status.
GetPaymentStatus(t, user, payment_id) ==
    /\ qry[t].pc = "idle"
    /\ qry' = [ qry EXCEPT ![t] = [ pc |-> "done", user |-> Some(user),
                                    payment_id |-> payment_id,
                                    resp |-> Some(StatusView(user, payment_id)) ] ]
    /\ UNCHANGED << payments, now, webhook_secret, ini, ing, swp, cache, auth >>

\* ------------------------------------------------------------------- clock

Tick(d) ==
    /\ now + d <= MaxTime
    /\ now' = now + d
    /\ UNCHANGED << payments, webhook_secret, ini, ing, swp, cache, auth, qry >>

\* ----------------------------------------------------------- specification

Init ==
    /\ payments = << >>
    /\ now = 0
    /\ webhook_secret \in {"", GatewaySecret}
    /\ ini = [ t \in InitTasks |-> IniIdle ]
    /\ ing = [ t \in IngestTasks |-> IngIdle ]
    /\ swp = SwpIdle
    /\ cache = [ k \in Tokens |-> Null ]
    /\ auth = [ t \in AuthTasks |-> AuthIdle ]
    /\ qry = [ t \in QueryTasks |-> QryIdle ]

\* The actions, over the inputs a specification draws them from.
InitiateNext(tasks, reqs, uouts, gouts, dboks) ==
    \/ \E t \in tasks, req \in reqs : InitiateStart(t, req)
    \/ \E t \in tasks, out \in uouts : InitiateUserDetails(t, out)
    \/ \E t \in tasks : InitiateLookup(t)
    \/ \E t \in tasks, out \in gouts : InitiateGateway(t, out)
    \/ \E t \in tasks, dbok \in dboks : InitiateCommit(t, dbok)

IngestNext(ds, vouts) ==
    \/ \E t \in IngestTasks, d \in ds : WebhookReceive(t, d)
    \/ \E t \in IngestTasks : WebhookLookup(t)
    \/ \E t \in IngestTasks, v \in vouts : WebhookVerify(t, v)
    \/ \E t \in IngestTasks, dbok \in BOOLEAN : WebhookCommit(t, dbok)
    \/ \E t \in IngestTasks, ok \in BOOLEAN : WebhookConfirm(t, ok)

SweepNext ==
    \/ SweepScan
    \/ \E ok \in BOOLEAN : SweepNotify(ok)
    \/ \E dbok \in BOOLEAN : SweepCommit(dbok)

\* Time is observed passing by the timeout, or by a day more.
ClockNext == \E d \in {PAYMENT_TIMEOUT_DAYS, PAYMENT_TIMEOUT_DAYS + 1} : Tick(d)

Refs == { TxRef(n) : n \in 0..NPay }

\* The lifecycle: owners initiate, the gateway accepts or rejects, deliveries
\* of either transport arrive, the timeout job runs, time passes.
LifecycleRequests ==
    InitiateRequestsOf({"R1"}, { e \in OwnerEntities : e.phone_number # "" } \cup {ServiceEntity},
                       {FIXED_AMOUNT})

LifecycleDeliveries == DeliveriesOf(PayloadsOf(Refs, {"success", "failed"}))

Next ==
    \/ InitiateNext(1..NPay, LifecycleRequests, {"ok"}, {"ok", "rejected"}, {TRUE})
    \/ IngestNext(LifecycleDeliveries, VerifyOutcomes)
    \/ SweepNext
    \/ ClockNext

Spec == Init /\ [][Next]_vars

\* Initiation alone: every identity, every outcome of the user-detail fetch,
\* of the gateway and of the store, the calls running concurrently.
InitiateRequests ==
    InitiateRequestsOf(RequestIds, OwnerEntities \cup OtherRoleEntities \cup {ServiceEntity},
                       {FIXED_AMOUNT})

NextInitiate ==
    InitiateNext(InitTasks, InitiateRequests, UserDetailOutcomes, GatewayInitOutcomes, BOOLEAN)

SpecInitiate == Init /\ [][NextInitiate]_vars

\* Initiation, the calls run one after another.
NextSeq ==
    \E t \in InitTasks :
        /\ \A u \in InitTasks \ {t} : ini[u].pc \in {"idle", "done"}
        /\ InitiateNext({t}, InitiateRequests, UserDetailOutcomes, GatewayInitOutcomes, BOOLEAN)

SpecSeq == Init /\ [][NextSeq]_vars

\* PaymentCreate.amount: any number not below 0, 500 when left out.
RequestAmounts == { 0, FIXED_AMOUNT, FIXED_AMOUNT + 1 }

\* Initiations that carry any amount, accepted by the gateway and stored.
AmountRequests ==
    InitiateRequestsOf(RequestIds, { e \in OwnerEntities : e.phone_number # "" } \cup {ServiceEntity},
                       RequestAmounts)

NextAmount ==
    InitiateNext(InitTasks, AmountRequests, UserDetailOutcomes, {"ok"}, {TRUE})

SpecAmount == Init /\ [][NextAmount]_vars

\* The timeout job over several payments: owners initiate payments at
\* different times, the gateway accepts them, one redirect is processed, the
\* job runs, time passes.
SweepRequests ==
    InitiateRequestsOf(RequestIds, { e \in OwnerEntities : e.phone_number # "" }, {FIXED_AMOUNT})

SweepDeliveries ==
    { d \in DeliveriesOf(PayloadsOf({ TxRef(n) : n \in InitTasks }, {"success"})) :
        d.method = "GET" /\ d.body.tx_ref # Null /\ d.body.status # Null }

SweepVerifyOutcomes ==
    { VerifyError, [ error |-> FALSE, status |-> "success", data_status |-> "success" ] }

NextSweep ==
    \/ \E t \in InitTasks, req \in SweepRequests : InitiateStart(t, req)
    \/ \E t \in InitTasks : InitiateLookup(t)
    \/ \E t \in InitTasks : InitiateGateway(t, "ok")
    \/ \E t \in InitTasks : InitiateCommit(t, TRUE)
    \/ \E d \in SweepDeliveries : WebhookReceive(1, d)
    \/ WebhookLookup(1)
    \/ \E v \in SweepVerifyOutcomes : WebhookVerify(1, v)
    \/ WebhookCommit(1, TRUE)
    \/ \E ok \in BOOLEAN : WebhookConfirm(1, ok)
    \/ SweepNext
    \/ ClockNext

SpecSweep == Init /\ [][NextSweep]_vars

\* One payment and the callbacks for it, every attempt of the verify call
\* ending in any of its ways.
NextVerify ==
    \/ \E req \in SweepRequests : InitiateStart(1, req)
    \/ InitiateLookup(1)
    \/ InitiateGateway(1, "ok")
    \/ InitiateCommit(1, TRUE)
    \/ \E t \in IngestTasks, d \in SweepDeliveries : WebhookReceive(t, d)
    \/ \E t \in IngestTasks : WebhookLookup(t)
    \/ \E t \in IngestTasks, v \in VerifyOutcomes \cup VerifyAttemptErrors : WebhookVerify(t, v)
    \/ \E t \in IngestTasks, dbok \in BOOLEAN : WebhookCommit(t, dbok)
    \/ \E t \in IngestTasks, ok \in BOOLEAN : WebhookConfirm(t, ok)

SpecVerify == Init /\ [][NextVerify]_vars

\* The timeout job kept running: payments are initiated, a callback may or may
\* not arrive, every notification of the job may fail, the store commits.
\* The job is scheduled again and again, and each of its steps ends: the scan
\* and the commit return, and the confirm call returns or raises.
NextLive ==
    \/ \E t \in InitTasks, req \in SweepRequests : InitiateStart(t, req)
    \/ \E t \in InitTasks : InitiateLookup(t)
    \/ \E t \in InitTasks : InitiateGateway(t, "ok")
    \/ \E t \in InitTasks : InitiateCommit(t, TRUE)
    \/ \E d \in SweepDeliveries : WebhookReceive(1, d)
    \/ WebhookLookup(1)
    \/ \E v \in SweepVerifyOutcomes : WebhookVerify(1, v)
    \/ WebhookCommit(1, TRUE)
    \/ \E ok \in BOOLEAN : WebhookConfirm(1, ok)
    \/ SweepScan
    \/ \E ok \in BOOLEAN : SweepNotify(ok)
    \/ SweepCommit(TRUE)
    \/ ClockNext

SpecLive ==
    /\ Init
    /\ [][NextLive]_vars
    /\ WF_vars(SweepScan)
    /\ WF_vars(\E ok \in BOOLEAN : SweepNotify(ok))
    /\ WF_vars(SweepCommit(TRUE))

\* Authentication alone: gate and direct resolutions over every combination
\* of API key and bearer credential, every outcome of the cache and of the
\* user management service, entries expiring.
NextAuth ==
    \/ \E t \in AuthTasks, mode \in {"gate", "resolve"}, key \in ApiKeys,
           tok \in {Null} \cup { Some(k) : k \in Tokens } : AuthStart(t, mode, key, tok)
    \/ \E t \in AuthTasks, ok \in BOOLEAN : AuthCacheRead(t, ok)
    \/ \E t \in AuthTasks, out \in RemoteVerifyOutcomes : AuthRemote(t, out)
    \/ \E t \in AuthTasks, w \in CacheWriteOutcomes : AuthCacheWrite(t, w)
    \/ \E tok \in Tokens : CacheExpire(tok)

\* The gate reads nothing of the webhook configuration.
InitAuth == Init /\ webhook_secret = GatewaySecret

SpecAuth == InitAuth /\ [][NextAuth]_vars

\* Status queries beside initiations (replays among them) and one redirect.
NextQuery ==
    \/ \E t \in InitTasks, req \in SweepRequests : InitiateStart(t, req)
    \/ \E t \in InitTasks : InitiateLookup(t)
    \/ \E t \in InitTasks : InitiateGateway(t, "ok")
    \/ \E t \in InitTasks : InitiateCommit(t, TRUE)
    \/ \E d \in SweepDeliveries : WebhookReceive(1, d)
    \/ WebhookLookup(1)
    \/ \E v \in SweepVerifyOutcomes : WebhookVerify(1, v)
    \/ WebhookCommit(1, TRUE)
    \/ \E ok \in BOOLEAN : WebhookConfirm(1, ok)
    \/ \E t \in QueryTasks, user \in QueryUsers, payment_id \in 1..(NInit + 1) :
           GetPaymentStatus(t, user, payment_id)

SpecQuery == Init /\ [][NextQuery]_vars

\* ------------------------------------------------------------------ claims

IniDone(t) == ini[t].pc = "done"
IniOk(t) == IniDone(t) /\ ini[t].resp[1].code = 202
\* The gateway accepted this call's initialize and the store did not fail it
\* for reasons of its own.
IniAccepted(t) ==
    /\ IniDone(t)
    /\ ini[t].gw \in { Some("ok"), Some("ok_nourl") }
    /\ ini[t].resp[1].detail # "Internal server error: OperationalError"

\* The ingest task has committed a transition.
IngApplied(t) ==
    /\ ing[t].verify # Null
    /\ \/ ing[t].pc = "confirm"
       \/ ing[t].pc = "done" /\ ing[t].resp[1].code = 200

\* C1: a payment whose committed status is SUCCESS or FAILED keeps that
\* status in every later committed state.
C1_TerminalStatusFinal ==
    [][ \A i \in PaymentIds :
            payments[i].status \in {SUCCESS, FAILED}
                => payments'[i].status = payments[i].status ]_vars

\* C2: with the Initiate calls run one after another, no request_id ever has
\* two rows, and a request_id some call succeeded for has exactly one.
C2_OneRowPerRequestId ==
    \A rid \in RequestIds :
        /\ Cardinality(ByRequestId(rid)) <= 1
        /\ (\E t \in InitTasks : IniOk(t) /\ ini[t].request_id = rid)
               => Cardinality(ByRequestId(rid)) = 1

C2_Witness ==
    \E t, u \in InitTasks :
        /\ t # u /\ IniOk(t) /\ IniOk(u)
        /\ ini[t].request_id = ini[u].request_id
        /\ ini[u].dup /\ ~ini[t].dup
        /\ Cardinality(ByRequestId(ini[t].request_id)) = 1

\* C3: no interleaving of two Initiate calls commits two rows with one
\* request_id; when both calls reached the gateway and were accepted, exactly
\* one row is persisted.
C3_RaceOneRow ==
    \A rid \in RequestIds :
        /\ Cardinality(ByRequestId(rid)) <= 1
        /\ \A t, u \in InitTasks :
               ( /\ t # u
                 /\ ini[t].request_id = rid /\ ini[u].request_id = rid
                 /\ IniAccepted(t) /\ IniAccepted(u) )
                   => Cardinality(ByRequestId(rid)) = 1

C3_Witness ==
    \E t, u \in InitTasks :
        /\ t # u /\ ini[t].request_id = ini[u].request_id
        /\ IniAccepted(t) /\ IniAccepted(u)
        /\ Cardinality(ByRequestId(ini[t].request_id)) = 1

\* C4: of two Initiate calls racing on one request_id, both accepted by the
\* gateway, each is answered with the payment and both with the same id.
C4_LoserReturnsRow ==
    \A t, u \in InitTasks :
        ( /\ t # u /\ ini[t].request_id = ini[u].request_id
          /\ IniAccepted(t) /\ IniAccepted(u)
          /\ ini[t].gw = Some("ok") /\ ini[u].gw = Some("ok") )
            => /\ ini[t].resp[1].code = 202 /\ ini[u].resp[1].code = 202
               /\ ini[t].resp[1].id = ini[u].resp[1].id

\* C5: of two deliveries processed against one payment, at most one commits
\* a transition.
C5_AtMostOneTransition ==
    \A t, u \in IngestTasks :
        (t # u /\ IngApplied(t) /\ IngApplied(u))
            => ing[t].obj[1].id # ing[u].obj[1].id

\* C6: a POST delivery without a signature, or with one that is not the
\* gateway's over the body, is answered 401 with no payment read, no verify
\* call and no confirm call.
C6_BadSignatureRejected ==
    \A t \in IngestTasks :
        (ing[t].pc # "idle" /\ ing[t].method = "POST" /\ ing[t].signed \in {"none", "forged"})
            => /\ ing[t].pc = "done"
               /\ ing[t].resp[1].code \in {400, 401}
               /\ ing[t].seen = Null /\ ing[t].verify = Null /\ ing[t].confirm = Null

\* C7: a delivery whose reference matches no stored payment leaves every row
\* as it is, calls neither verify nor confirm, and is answered 200.
C7_UnknownReferenceNoOp ==
    [][ \A t \in IngestTasks :
            ( /\ ing[t].pc = "lookup" /\ ing'[t].pc # "lookup"
              /\ ByTxRef(ing[t].tx_ref[1]) = {} )
                => /\ payments' = payments
                   /\ ing'[t].pc = "done"
                   /\ ing'[t].resp # Null /\ ing'[t].resp[1].code = 200
                   /\ ing'[t].verify = Null /\ ing'[t].confirm = Null ]_vars

C7_Witness ==
    \E t \in IngestTasks :
        /\ ing[t].pc = "done" /\ ing[t].seen = Null /\ ing[t].resp[1].code = 200
        /\ Len(payments) >= 1

\* C8: a delivery that finds its payment SUCCESS or FAILED leaves every row
\* as it is, calls neither verify nor confirm, and is answered 200.
C8_ReplayNoOp ==
    [][ \A t \in IngestTasks :
            ( /\ ing[t].pc = "lookup" /\ ing'[t].pc # "lookup"
              /\ \E i \in ByTxRef(ing[t].tx_ref[1]) : payments[i].status # PENDING )
                => /\ payments' = payments
                   /\ ing'[t].pc = "done"
                   /\ ing'[t].resp # Null /\ ing'[t].resp[1].code = 200
                   /\ ing'[t].verify = Null /\ ing'[t].confirm = Null ]_vars

C8_Witness ==
    \E t \in IngestTasks :
        /\ ing[t].pc = "done" /\ ing[t].seen = Some(FAILED)
        /\ ing[t].reported = Some("success") /\ ing[t].resp[1].code = 200
        /\ ing[t].verify = Null

\* C9: the commit of a delivery that found its payment PENDING writes SUCCESS
\* exactly when verify returned without error with status "success" and data
\* status "success"; otherwise it writes FAILED and a failure_reason.
C9_VerifyDecidesStatus ==
    [][ \A t \in IngestTasks :
            (ing[t].pc = "commit" /\ IngApplied(t)')
                => LET v == ing[t].verify[1]
                       row == payments'[ing[t].obj[1].id]
                       good == ~v.error /\ v.status = "success" /\ v.data_status = "success"
                   IN  /\ good => row.status = SUCCESS
                       /\ ~good => (row.status = FAILED /\ row.failure_reason # Null) ]_vars

C9_Witness ==
    \E t \in IngestTasks :
        /\ IngApplied(t) /\ ~ing[t].verify[1].error
        /\ ing[t].verify[1].status = "success" /\ ing[t].verify[1].data_status = "failed"
        /\ ing[t].reported = Some("success")
        /\ payments[ing[t].obj[1].id].status = FAILED

\* C10: two deliveries that found the same payment PENDING and got the same
\* verify outcome, and report different statuses, commit the same status,
\* the same approved_at presence and the same failure_reason.
C10_ReportedStatusIgnored ==
    \A t, u \in IngestTasks :
        ( /\ IngApplied(t) /\ IngApplied(u)
          /\ ing[t].obj[1].id = ing[u].obj[1].id
          /\ ing[t].verify = ing[u].verify
          /\ ing[t].reported # ing[u].reported )
            => /\ ing[t].obj[1].status = ing[u].obj[1].status
               /\ (ing[t].obj[1].approved_at = Null) = (ing[u].obj[1].approved_at = Null)
               /\ ing[t].obj[1].failure_reason = ing[u].obj[1].failure_reason

C10_Witness ==
    \E t, u \in IngestTasks :
        /\ IngApplied(t) /\ IngApplied(u)
        /\ ing[t].obj[1].id = ing[u].obj[1].id
        /\ ing[t].verify = ing[u].verify
        /\ ing[t].reported = Some("success") /\ ing[u].reported = Some("failed")
        /\ ing[t].obj[1].status = SUCCESS

\* No ingest task holds payment i in its session.
Untouched(i) ==
    \A t \in IngestTasks : ing[t].obj = Null \/ ing[t].obj[1].id # i

\* C11: in every committed state a payment's approved_at is set if and only
\* if its status is SUCCESS.
C11_ApprovedIffSuccess ==
    \A i \in PaymentIds :
        (payments[i].approved_at # Null) <=> (payments[i].status = SUCCESS)

\* C12: in every committed state a payment with a failure_reason is FAILED.
C12_FailureReasonOnlyOnFailed ==
    \A i \in PaymentIds :
        payments[i].failure_reason # Null => payments[i].status = FAILED

\* C13: the commit of the timeout job leaves every payment it scanned, still
\* PENDING and held by no other task, FAILED with a failure_reason.
C13_SweepFailsWithReason ==
    [][ \A i \in PaymentIds :
            ( /\ swp.pc = "commit" /\ i \in DOMAIN swp.marked
              /\ payments[i].status = PENDING /\ Untouched(i)
              /\ payments'[i] # payments[i] )
                => /\ payments'[i].status = FAILED
                   /\ payments'[i].failure_reason # Null ]_vars

\* The payments the running timeout job selected at its scan.
Scanned(s) == s.batch \cup DOMAIN s.marked

\* C14: the timeout job scans exactly the payments that are PENDING and older
\* than the threshold at that moment; it notifies and changes none but those,
\* so a run that scans nothing (as one right after another run) changes
\* nothing.
C14_SweepOnlyStalePending ==
    [][ /\ (swp.pc = "idle" /\ swp' # swp)
              => Scanned(swp') =
                    { i \in PaymentIds :
                        /\ payments[i].status = PENDING
                        /\ now - payments[i].created_at > PAYMENT_TIMEOUT_DAYS }
        /\ (swp.pc # "idle" /\ swp' # swp) => Scanned(swp') = Scanned(swp)
        /\ DOMAIN swp'.sent \subseteq Scanned(swp')
        /\ swp'.cur # 0 => swp'.cur \in Scanned(swp')
        /\ (swp.pc = "commit" /\ swp' # swp)
              => \A i \in PaymentIds \ Scanned(swp) : payments'[i] = payments[i] ]_vars

C14_Witness ==
    /\ swp.pc = "commit" /\ Scanned(swp) = {} /\ DOMAIN swp.sent = {}
    /\ Len(payments) = 2
    /\ payments[1].status = FAILED /\ payments[1].failure_reason = Null
    /\ payments[1].approved_at = Null
    /\ payments[2].status = PENDING

\* C15: a confirm call that fails changes no row and the delivery is still
\* answered 200; in the timeout job a failed notification does not end the
\* loop, and the job's commit writes FAILED for every payment it scanned.
C15_ConfirmFailureKeepsTransition ==
    [][ /\ \A t \in IngestTasks :
              (ing[t].pc = "confirm" /\ ing'[t].confirm = Some(FALSE))
                  => /\ payments' = payments
                     /\ ing'[t].pc = "done" /\ ing'[t].resp[1].code = 200
        /\ (swp.pc = "notify" /\ swp' # swp)
              => /\ swp'.pc \in {"notify", "commit"}
                 /\ DOMAIN swp.marked \subseteq DOMAIN swp'.marked
                 /\ swp'.pc = "commit" => swp'.batch = {}
        /\ (swp.pc = "commit" /\ swp' # swp /\ payments' # payments)
              => \A i \in DOMAIN swp.marked : payments'[i].status = FAILED ]_vars

C15_Witness ==
    \E i, j \in PaymentIds :
        /\ i # j
        /\ swp.pc = "idle" /\ i \in DOMAIN swp.sent /\ ~swp.sent[i]
        /\ payments[i].status = FAILED
        /\ ing[1].pc = "done" /\ ing[1].confirm = Some(FALSE)
        /\ ing[1].obj[1].id = j /\ ing[1].resp[1].code = 200
        /\ payments[j].status = SUCCESS

\* C16: a delivery's confirm call is made only once its commit has written
\* SUCCESS, is made by every delivery that committed SUCCESS, and by none that
\* committed FAILED.
C16_ConfirmIffSuccessCommitted ==
    [][ \A t \in IngestTasks :
            /\ (ing'[t].pc = "confirm" \/ ing'[t].confirm # Null)
                  => (IngApplied(t)' /\ ing'[t].obj[1].status = SUCCESS)
            /\ (ing[t].pc # "confirm" /\ ing'[t].pc = "confirm")
                  => payments'[ing'[t].obj[1].id].status = SUCCESS
            /\ (ing'[t].pc = "done" /\ IngApplied(t)' /\ ing'[t].obj[1].status = SUCCESS)
                  => ing'[t].confirm # Null
            /\ (IngApplied(t)' /\ ing'[t].obj[1].status = FAILED)
                  => (ing'[t].pc = "done" /\ ing'[t].confirm = Null) ]_vars

C16_Witness ==
    \E t, u \in IngestTasks :
        /\ ing[t].pc = "done" /\ ing[t].confirm # Null
        /\ ing[t].obj[1].status = SUCCESS
        /\ ing[u].pc = "done" /\ IngApplied(u) /\ ing[u].obj[1].status = FAILED
        /\ ing[u].confirm = Null

\* The confirm calls with SUCCESS made for payment i.
ConfirmCalls(i) ==
    { t \in IngestTasks : ing[t].confirm # Null /\ ing[t].obj[1].id = i }

\* C17: for a payment that reached SUCCESS the confirm call with SUCCESS is
\* made exactly once, however many deliveries were processed for it.
C17_ConfirmExactlyOnce ==
    \A i \in PaymentIds :
        /\ Cardinality(ConfirmCalls(i)) <= 1
        /\ ( /\ payments[i].status = SUCCESS
              /\ \A t \in IngestTasks : ing[t].pc \in {"idle", "done"} )
               => Cardinality(ConfirmCalls(i)) = 1

\* C18: an Initiate call whose request_id already has a stored payment goes
\* straight to the idempotency lookup, whatever the caller's identity and
\* contact data: it fetches no user details and does not fail on a missing
\* phone number.
C18_LookupFirst ==
    [][ \A t \in InitTasks :
            ( /\ ini[t].pc = "idle" /\ ini'[t].pc # "idle"
              /\ ByRequestId(ini'[t].request_id) # {} )
                => ini'[t].pc = "lookup" ]_vars

\* C19: an Initiate call the gateway answered with a body whose status is
\* not "success" ends with 400 and no row holds its reference; a later call
\* with the same request_id finds nothing stored.
C19_RejectedNotPersisted ==
    \A t \in InitTasks :
        ini[t].gw = Some("rejected")
            => /\ IniDone(t) /\ ini[t].resp[1].code = 400
               /\ ByTxRef(TxRef(t)) = {}

C19_Witness ==
    \E t, u \in InitTasks :
        /\ t # u /\ ini[t].gw = Some("rejected") /\ IniDone(t)
        /\ ini[u].request_id = ini[t].request_id
        /\ IniOk(u) /\ ~ini[u].dup
        /\ ByRequestId(ini[t].request_id) = ByTxRef(TxRef(u))

\* C20: an Initiate call whose paying user (the owner identity, or the user
\* fetched for a service call) has no phone number ends with 400 before any
\* gateway call, and commits no row.
C20_NoPhoneRejected ==
    \A t \in InitTasks :
        ini[t].phone = Some("")
            => /\ IniDone(t) /\ ini[t].resp[1].code = 400
               /\ ini[t].gw = Null /\ ini[t].tx_ref = Null
               /\ ByTxRef(TxRef(t)) = {}

C20_Witness ==
    \E t, u \in InitTasks :
        /\ ini[t].role = "Service" /\ ini[t].phone = Some("") /\ IniDone(t)
        /\ ini[u].role = "Owner" /\ ini[u].phone = Some("") /\ IniDone(u)
        /\ ByRequestId(ini[t].request_id) = {}
        /\ ByRequestId(ini[u].request_id) = {}

\* C21: the reference field of a status query's view and of an Initiate
\* replay's view is the placeholder, never the stored reference.
C21_ReferenceMasked ==
    /\ \A q \in QueryTasks :
           (qry[q].pc = "done" /\ qry[q].resp[1].code = 200)
               => /\ qry[q].resp[1].chapa_tx_ref = MASKED_REF
                  /\ qry[q].resp[1].chapa_tx_ref # payments[qry[q].resp[1].id].chapa_tx_ref
    /\ \A t \in InitTasks :
           ini[t].dup
               => /\ ini[t].resp[1].chapa_tx_ref = MASKED_REF
                  /\ ini[t].resp[1].chapa_tx_ref # payments[ini[t].resp[1].id].chapa_tx_ref

C21_Witness ==
    /\ \E q \in QueryTasks : qry[q].pc = "done" /\ qry[q].resp[1].code = 200
    /\ \E t \in InitTasks : ini[t].dup

\* C22: two Initiate calls with the same request, one after the other, are
\* answered with the same id, the same status and the same reference field.
C22_ReplayAgrees ==
    \A t, u \in InitTasks :
        (t # u /\ IniOk(t) /\ IniOk(u) /\ ini[t].request_id = ini[u].request_id)
            => /\ ini[t].resp[1].id = ini[u].resp[1].id
               /\ ini[t].resp[1].status = ini[u].resp[1].status
               /\ ini[t].resp[1].chapa_tx_ref = ini[u].resp[1].chapa_tx_ref

\* C23: a status query changes no payment; it answers 404 for an id that is
\* not stored, the view for the payment's own user or an administrator, and
\* 403 for anyone else.
C23_StatusQueryAuthorised ==
    [][ \A q \in QueryTasks :
            (qry[q].pc = "idle" /\ qry'[q].pc = "done")
                => LET user == qry'[q].user[1]
                       pid == qry'[q].payment_id
                       r == qry'[q].resp[1]
                   IN  /\ payments' = payments
                       /\ pid \notin PaymentIds => r.code = 404
                       /\ pid \in PaymentIds =>
                             IF payments[pid].user_id = user.user_id \/ user.role = "Admin"
                             THEN /\ r.code = 200 /\ r.id = pid
                                  /\ r.status = payments[pid].status
                             ELSE r.code = 403 ]_vars

C23_Witness ==
    \E q \in QueryTasks :
        /\ qry[q].pc = "done" /\ qry[q].resp[1].code = 403
        /\ qry[q].user[1].role = "Owner"
        /\ payments[qry[q].payment_id].user_id # qry[q].user[1].user_id

\* C24: an Initiate call reaches the gateway or commits a row only for an
\* identity with the Owner role or the service identity.
C24_OnlyOwnerOrService ==
    \A t \in InitTasks :
        (ini[t].gw # Null \/ ByTxRef(TxRef(t)) # {})
            => ini[t].role \in {"Owner", "Service"}

\* C25: the gate admits every request whose API key matches, whatever its
\* bearer credential, and with a matching key it makes no call to the user
\* management service.
C25_GateAdmitsEitherMode ==
    \A t \in AuthTasks :
        (auth[t].mode = "gate" /\ auth[t].api_key = Some(PAYMENT_SERVICE_API_KEY))
            => /\ auth[t].pc = "done" => auth[t].result[1].code = 200
               /\ auth[t].outs = << >>

\* C26: the cache is read before the credential is decoded or the user
\* management service is called, and a read that finds an identity returns
\* it with neither.
C26_CacheHitReturns ==
    [][ \A t \in AuthTasks :
            /\ auth'[t].pc = "cache" => (~auth'[t].decoded /\ auth'[t].outs = << >>)
            /\ ( /\ auth[t].pc = "cache" /\ auth'[t].pc # "cache"
                  /\ ~auth'[t].read_failed
                  /\ cache[auth[t].token[1]] # Null
                  /\ Parses(cache[auth[t].token[1]][1]) )
                    => /\ auth'[t].pc = "done" /\ auth'[t].hit
                       /\ ~auth'[t].decoded /\ auth'[t].outs = << >>
                       /\ cache' = cache
                       /\ auth[t].mode = "resolve"
                             => auth'[t].result =
                                   Some(AuthOk(cache[auth[t].token[1]][1][1])) ]_vars

C26_Witness ==
    \E t \in AuthTasks :
        /\ auth[t].pc = "done" /\ auth[t].mode = "resolve" /\ auth[t].hit
        /\ auth[t].result[1].code = 200 /\ auth[t].outs = << >>

\* C27: a resolution whose cache read or cache write failed ends as one with
\* the same credential and the same answers of the user management service
\* whose cache was empty and working.
C27_CacheFailureTransparent ==
    \A t, u \in AuthTasks :
        ( /\ auth[t].pc = "done" /\ auth[u].pc = "done"
          /\ auth[t].mode = "resolve" /\ auth[u].mode = "resolve"
          /\ auth[t].token # Null /\ auth[t].token = auth[u].token
          /\ auth[t].outs = auth[u].outs
          /\ auth[t].read_failed \/ auth[t].write_failed
          /\ ~auth[u].read_failed /\ ~auth[u].write_failed /\ ~auth[u].hit )
            => auth[t].result = auth[u].result

C27_Witness ==
    \E t, u \in AuthTasks :
        /\ auth[t].pc = "done" /\ auth[u].pc = "done"
        /\ auth[t].mode = "resolve" /\ auth[u].mode = "resolve"
        /\ auth[t].token = auth[u].token /\ auth[t].outs = auth[u].outs
        /\ auth[t].read_failed /\ auth[t].write_failed
        /\ ~auth[u].read_failed /\ ~auth[u].write_failed /\ ~auth[u].hit
        /\ auth[t].result[1].code = 200 /\ auth[u].result[1].code = 200

\* C28: a resolution without a credential, or that misses the cache with a
\* credential that fails to decode, ends with 401, with no call to the user
\* management service and no cache write.
C28_BadCredentialNoRemote ==
    \A t \in AuthTasks :
        ( /\ auth[t].pc = "done" /\ ~auth[t].hit
          /\ \/ auth[t].mode = "resolve" /\ auth[t].token = Null
             \/ auth[t].token # Null /\ ~DecodeOk(auth[t].token[1]) )
            => /\ auth[t].result[1].code = 401
               /\ auth[t].outs = << >> /\ ~auth[t].wrote

C28_Witness ==
    \E t, u \in AuthTasks :
        /\ auth[t].pc = "done" /\ auth[t].mode = "resolve" /\ auth[t].token = Null
        /\ auth[u].pc = "done" /\ auth[u].mode = "resolve"
        /\ auth[u].token = Some("tokExpired") /\ auth[u].decoded
        /\ auth[u].result[1].code = 401

\* C29: a resolution that missed the cache and found the user management
\* service unreachable at every attempt ends with 503 after 3 attempts, and
\* writes nothing to the cache; no resolution makes more than 3 attempts.
C29_UnreachableIs503 ==
    \A t \in AuthTasks :
        /\ Len(auth[t].outs) <= MAX_ATTEMPTS
        /\ ( /\ auth[t].pc = "done" /\ auth[t].outs # << >>
              /\ \A k \in DOMAIN auth[t].outs : auth[t].outs[k] = "unreachable" )
                => /\ auth[t].result[1].code = 503
                   /\ Len(auth[t].outs) = MAX_ATTEMPTS
                   /\ ~auth[t].wrote

C29_Witness ==
    \E t \in AuthTasks :
        /\ auth[t].pc = "done" /\ auth[t].outs = << "unreachable", "unreachable", "unreachable" >>
        /\ auth[t].result[1].code = 503
        /\ cache[auth[t].token[1]] = Null

\* C30: an Initiate call whose gateway initialize call failed at the network
\* at every attempt ends with 503 and no row.
C30_GatewayUnavailableIs503 ==
    \A t \in InitTasks :
        ini[t].gw = Some("neterr")
            => /\ IniDone(t) /\ ini[t].resp[1].code = 503
               /\ ByTxRef(TxRef(t)) = {}

\* C31: one gateway initialize operation makes at most 3 attempts; every
\* attempt but the last ended with a network error or a 5xx; an operation
\* that ended on one of those made all 3 and its error reached the handler; a
\* 4xx or a response body ends the operation at the attempt that got it.
C31_InitializeRetryPolicy ==
    \A t \in InitTasks :
        LET outs == ini[t].gw_outs
        IN  /\ Len(outs) <= MAX_ATTEMPTS
            /\ \A k \in DOMAIN outs : k < Len(outs) => outs[k] \in {"neterr", "http5xx"}
            /\ ini[t].pc = "gateway"
                  => (Len(outs) < MAX_ATTEMPTS /\ \A k \in DOMAIN outs : outs[k] \in {"neterr", "http5xx"})
            /\ (outs # << >> /\ ini[t].pc # "gateway")
                  => /\ ini[t].gw = Some(outs[Len(outs)])
                     /\ outs[Len(outs)] \in {"neterr", "http5xx"}
                           => (Len(outs) = MAX_ATTEMPTS /\ IniDone(t) /\ ini[t].resp[1].code >= 500)
                     /\ outs[Len(outs)] = "http4xx"
                           => (IniDone(t) /\ ini[t].resp[1].code = 400)
                     /\ outs[Len(outs)] \in {"ok", "ok_nourl"}
                           => ini[t].pc \in {"commit", "done"}

C31_Witness ==
    \E t, u \in InitTasks :
        /\ ini[t].gw_outs = << "neterr", "http5xx", "neterr" >> /\ IniDone(t)
        /\ ini[u].gw_outs = << "http5xx", "http4xx" >> /\ IniDone(u)

\* C32: one gateway verify operation makes at most 3 attempts, and retries
\* only a network error or a 5xx: a 4xx ends the operation at its attempt.
C32_VerifyRetryPolicy ==
    \A t \in IngestTasks :
        LET outs == ing[t].verify_outs
        IN  /\ Len(outs) <= MAX_ATTEMPTS
            /\ \A k \in DOMAIN outs :
                   k < Len(outs) => outs[k].status \in {"neterr", "http5xx"}

\* C33: when the store refuses the row after the gateway accepted the
\* initialization, the operation ends there with an error answer: no further
\* gateway attempt is made and the reference is not replaced; an ended
\* operation does nothing more.
C33_StoreFailureEndsInitiate ==
    [][ \A t \in InitTasks :
          /\ (ini[t].pc = "commit" /\ ini'[t] # ini[t] /\ payments' = payments)
                => /\ ini'[t].pc = "done"
                   /\ ini'[t].resp[1].code >= 500
                   /\ ini'[t].tx_ref = ini[t].tx_ref
                   /\ ini'[t].gw_outs = ini[t].gw_outs
          /\ ini[t].pc = "done" => ini'[t] = ini[t] ]_vars

C33_Witness ==
    \E t \in InitTasks :
        /\ IniDone(t)
        /\ ini[t].gw = Some("ok")
        /\ ini[t].gw_outs = << "http5xx", "ok" >>
        /\ ini[t].resp[1] = HttpError(500, "Internal server error: OperationalError")
        /\ ini[t].tx_ref = Some(TxRef(t))
        /\ ByTxRef(TxRef(t)) = {}

\* C34: the sweep tells the listing service that a payment FAILED only once
\* that status is committed: a payment whose notification was delivered has
\* the committed status FAILED, neither PENDING nor SUCCESS.
C34_SweepNotifiesAfterCommit ==
    \A i \in DOMAIN swp.sent :
        swp.sent[i] => payments[i].status = FAILED

\* C35: no two payments have the same gateway reference, and a payment's id,
\* request_id, property_id, user_id, amount, gateway reference and created_at
\* never change after creation; a callback or a sweep step neither adds nor
\* deletes a row: the only change of the row count is one row appended by an
\* initiation's commit, under that initiation's reference.
C35_IdentityFieldsFixed ==
    [][ /\ Len(payments') >= Len(payments)
        /\ \A i \in PaymentIds :
              \A c \in {"id", "request_id", "property_id", "user_id", "amount",
                         "chapa_tx_ref", "created_at"} :
                  payments'[i][c] = payments[i][c]
        /\ (ing' # ing \/ swp' # swp) => Len(payments') = Len(payments)
        /\ Len(payments') # Len(payments)
              => /\ Len(payments') = Len(payments) + 1
                 /\ \E t \in InitTasks :
                       /\ ini[t].pc = "commit" /\ ini'[t].pc = "done"
                       /\ payments'[Len(payments')].chapa_tx_ref = ini[t].tx_ref[1]
        /\ \A i, j \in 1..Len(payments') :
              i # j => payments'[i].chapa_tx_ref # payments'[j].chapa_tx_ref ]_vars

C35_Witness ==
    /\ Len(payments) = 2
    /\ payments[1].chapa_tx_ref # payments[2].chapa_tx_ref
    /\ \E i, j \in PaymentIds :
          /\ payments[i].status = FAILED /\ payments[i].updated_at > payments[i].created_at
          /\ swp.pc = "idle" /\ i \in DOMAIN swp.marked
          /\ payments[j].status = SUCCESS /\ payments[j].approved_at # Null
          /\ ing[1].pc = "done" /\ ing[1].obj # Null /\ ing[1].obj[1].id = j

\* C36: with the timeout job kept running and the store committing, a payment
\* that is PENDING and older than the threshold eventually has a terminal
\* status, whether or not a callback arrives or a notification goes through.
C36_StalePendingEventuallyTerminal ==
    \A i \in 1..NInit :
        ( /\ i \in PaymentIds
          /\ payments[i].status = PENDING
          /\ payments[i].created_at < now - PAYMENT_TIMEOUT_DAYS )
            ~> ( i \in PaymentIds /\ payments[i].status \in {SUCCESS, FAILED} )

C36_Witness ==
    \E i \in PaymentIds :
        /\ payments[i].status = FAILED
        /\ payments[i].created_at < now - PAYMENT_TIMEOUT_DAYS
        /\ swp.pc = "idle" /\ i \in DOMAIN swp.marked
        /\ i \in DOMAIN swp.sent /\ ~swp.sent[i]
        /\ ing[1] = IngIdle

\* C37: the amount stored with a payment is the fixed amount that was sent to
\* the gateway for it, whatever amount the caller supplied.
C37_AmountIsFixedAmount ==
    \A i \in PaymentIds :
        /\ payments[i].amount = GatewayAmount(payments[i].amount)
        /\ payments[i].amount = FIXED_AMOUNT

====
